---------------------------- MODULE Spec2Model ----------------------------
(***************************************************************************)
(* Model of the derivation logic of the F1 data analyzer frontend:         *)
(*   - RaceAnalysis.tsx: chartData, pit-stop based stint reconstruction    *)
(*     and the lap filter (all / fastest / average);                       *)
(*   - TelemetryAnalysis.tsx: the index-aligned chart series built from    *)
(*     two telemetry laps (speed, gear, RPM), and the request lifecycle:   *)
(*     the selects, the four effects and the responses of the backend;     *)
(*   - DriverComparison.tsx: the Compare request, its response and the     *)
(*     Battle Stats figure, over the comparison engine of the backend;     *)
(*   - Dashboard.tsx: the season select, loadRaces and the race cards;     *)
(*   - RaceAnalysis.tsx: loadDrivers and loadDriverData.                   *)
(*                                                                         *)
(* The derivations are pure functions of the component state; each is an   *)
(* operator computed the way the code computes it, and each specification  *)
(* draws the fetched data from bounded sets in Init and applies the        *)
(* derivation in its actions.                                              *)
(*                                                                         *)
(* Numbers: lap times are integers in an arbitrary unit; the percentage    *)
(* thresholds are compared exactly (cross-multiplied), i.e. floating-point *)
(* rounding of the JavaScript arithmetic is not modelled.                  *)
(***************************************************************************)
EXTENDS Integers, Sequences, FiniteSets, Bags

VARIABLES
    driverLaps,         \* RaceAnalysis state: the fetched DriverLaps (laps, pit_stops)
    lapFilter,          \* RaceAnalysis state: 'all' | 'fastest' | 'average'
    stints,             \* RaceAnalysis render: the stints array
    filteredChartData,  \* RaceAnalysis render: the filtered chart laps
    missingLapNumbers,  \* RaceAnalysis render: the lap numbers missing from the sequence
    telemetryData,      \* TelemetryAnalysis state: the fetched comparison (or null)
    speedData,          \* TelemetryAnalysis render: prepareSpeedData()
    gearData,           \* TelemetryAnalysis render: prepareGearData()
    rpmData,            \* TelemetryAnalysis render: prepareRPMData()
    pc,                 \* "fetched": data in state, nothing derived yet; "rendered"
    lapTimes,           \* backend: each driver's lap times of the race, by lap number
    driverComparison,   \* DriverComparison state: driver1, driver2, comparison, loading, error
    comparisonRequests, \* DriverComparison: the compareDrivers calls awaiting their response
    battleStats,        \* DriverComparison render: the Battle Stats figure
    year,               \* TelemetryAnalysis state: the selected year
    selectedRace,       \* TelemetryAnalysis state: the selected round (or null)
    driver1,            \* TelemetryAnalysis state: the code of driver 1
    driver2,            \* TelemetryAnalysis state: the code of driver 2
    races,              \* TelemetryAnalysis state: the races of the year
    availableDrivers,   \* TelemetryAnalysis state: the drivers of the race
    circuitLayout,      \* TelemetryAnalysis state: the circuit layout (or null)
    loading,            \* TelemetryAnalysis state: telemetry is being loaded
    loadingDrivers,     \* TelemetryAnalysis state: the driver list is being loaded
    error,              \* TelemetryAnalysis state: the error message (or null)
    requests,           \* TelemetryAnalysis: the fetches awaiting their response (a bag)
    calendar,           \* backend: the races of each season
    dashboard,          \* Dashboard state: races, loading, selectedYear
    dashboardRequests,  \* Dashboard: the getRaces calls awaiting their response (a bag of years)
    completedRaces,     \* Dashboard render: the races before today, newest first
    upcomingRaces,      \* Dashboard render: the races from today on, soonest first
    latestRace,         \* Dashboard render: the race named in the Completed card
    raceAnalysis,       \* RaceAnalysis state: selectedDriver, availableDrivers, loadingDrivers,
                        \*   driverLaps, paceAnalysis, loading, error
    raceRequests,       \* RaceAnalysis: the loads awaiting their response (a bag)
    page                \* the page on screen: one page component is mounted at a time

vars == <<driverLaps, lapFilter, stints, filteredChartData, missingLapNumbers,
          telemetryData, speedData, gearData, rpmData, pc,
          lapTimes, driverComparison, comparisonRequests, battleStats,
          year, selectedRace, driver1, driver2, races, availableDrivers,
          circuitLayout, loading, loadingDrivers, error, requests,
          calendar, dashboard, dashboardRequests, completedRaces, upcomingRaces,
          latestRace, raceAnalysis, raceRequests, page>>

raceVars == <<driverLaps, lapFilter, stints, filteredChartData, missingLapNumbers>>
telemetryVars == <<telemetryData, speedData, gearData, rpmData>>
comparisonVars == <<lapTimes, driverComparison, comparisonRequests, battleStats>>
pageVars == <<year, selectedRace, driver1, driver2, races, availableDrivers,
              circuitLayout, loading, loadingDrivers, error, requests>>
dashboardVars == <<calendar, dashboard, dashboardRequests, completedRaces,
                   upcomingRaces, latestRace>>
loadVars == <<raceAnalysis, raceRequests>>

---------------------------------------------------------------------------
(* Bounds of the model *)

MaxLap == 4          \* lap numbers are drawn from 1..MaxLap
MaxPits == 2         \* at most MaxPits pit-stop records
MaxSamples == 2      \* at most MaxSamples telemetry samples per lap
MaxPairedLaps == 2   \* the compared drivers' laps are drawn from 1..MaxPairedLaps
MaxPending == 1      \* a select is used while at most MaxPending fetches are pending

---------------------------------------------------------------------------
(* JavaScript values *)

\* null / undefined of a numeric field (time: number | null; an array read
\* past its end)
Null == -1

\* An absent compound: null, undefined and '' are all falsy, and the code
\* only ever tests a compound for truthiness.
NoCompound == ""

Truthy(compound) == compound # NoCompound

\* a || b
OrElse(a, b) == IF Truthy(a) THEN a ELSE b

\* arr[i] with the 0-based index i of the code: undefined past the end
At(arr, i) == IF i + 1 \in 1..Len(arr) THEN arr[i + 1] ELSE Null

SetMin(S) == CHOOSE m \in S : \A x \in S : m <= x
SetMax(S) == CHOOSE m \in S : \A x \in S : m >= x

RECURSIVE Ascending(_)
Ascending(S) == IF S = {} THEN <<>>
                ELSE <<SetMin(S)>> \o Ascending(S \ {SetMin(S)})

---------------------------------------------------------------------------
(* RaceAnalysis: chartData *)

\* Mutant of chartDataOf: the laps are numbered by their position
chartDataOf_reindexed(dl) ==
    [i \in 1..Len(dl.laps) |->
        [lap |-> i,
         time |-> dl.laps[i].time,
         compound |-> dl.laps[i].compound]]

\* driverLaps?.laps.map(lap => ({lap: lap.lap_number, time, compound, ...}))
chartDataOf(dl) ==
    [i \in 1..Len(dl.laps) |->
        [lap |-> dl.laps[i].lap_number,
         time |-> dl.laps[i].time,
         compound |-> dl.laps[i].compound]]

\* for (let j = prevLap + 1; j < currentLap; j++) missingLapNumbers.push(j)
lapsBetween(prevLap, currentLap) ==
    [k \in 1..(currentLap - prevLap - 1) |-> prevLap + k]

\* The missingLapNumbers pushed by the loop over i = 1 .. n - 1 (0-based:
\* the pairs chartData[i - 1], chartData[i])
RECURSIVE missingUpTo(_, _)
missingUpTo(chartData, n) ==
    IF n <= 1 THEN <<>>
    ELSE missingUpTo(chartData, n - 1) \o
         (IF chartData[n].lap - chartData[n - 1].lap > 1
          THEN lapsBetween(chartData[n - 1].lap, chartData[n].lap)
          ELSE <<>>)

\* Find missing laps (gaps in sequence)
missingLapNumbersOf(chartData) == missingUpTo(chartData, Len(chartData))

\* driverLaps?.pit_stops?.map(ps => ({lap: ps.lap, reasons, ...}))
pitStopDetailsOf(dl) ==
    [i \in 1..Len(dl.pit_stops) |-> [lap |-> dl.pit_stops[i].lap]]

\* Mutant of firstLapOf: takes the race to start at lap 1
firstLapOf_lapOne(chartData) == 1

\* Math.min / Math.max over the lap numbers of a non-empty chartData
firstLapOf(chartData) == SetMin({chartData[i].lap : i \in 1..Len(chartData)})
lastLapOf(chartData) == SetMax({chartData[i].lap : i \in 1..Len(chartData)})

---------------------------------------------------------------------------
(* RaceAnalysis: stints built from the pit stops *)

\* Where x goes in an array already sorted by lap: behind every element
\* whose lap is not greater (Array.prototype.sort is stable)
InsertByLap(sorted, x) ==
    LET k == Cardinality({i \in 1..Len(sorted) : sorted[i].lap <= x.lap})
    IN SubSeq(sorted, 1, k) \o <<x>> \o SubSeq(sorted, k + 1, Len(sorted))

\* Mutant of sortedPitStopsOf: the pit stops are walked in response order
sortedPitStopsOf_unsorted(details) == details

\* [...pitStopDetails].sort((a, b) => a.lap - b.lap)
RECURSIVE sortedPitStopsOf(_)
sortedPitStopsOf(details) ==
    IF details = <<>> THEN <<>>
    ELSE InsertByLap(sortedPitStopsOf(SubSeq(details, 1, Len(details) - 1)),
                     details[Len(details)])

\* Mutant of stintEndOf: the pit lap closes the stint
stintEndOf_pitLap(pitStop) == pitStop.lap

\* const stintEnd = pitStop.lap - 1
stintEndOf(pitStop) == pitStop.lap - 1

\* Mutant of nextStintStartOf: the pit lap opens the next stint
nextStintStartOf_pitLap(pitStop) == pitStop.lap

\* stintStart = pitStop.lap + 1
nextStintStartOf(pitStop) == pitStop.lap + 1

\* Mutant of stintLapsOf: every lap up to stintEnd, the start ignored
stintLapsOf_upToEnd(chartData, stintStart, stintEnd) ==
    SelectSeq(chartData, LAMBDA l : l.lap <= stintEnd)

\* chartData.filter(l => l.lap >= stintStart && l.lap <= stintEnd)
stintLapsOf(chartData, stintStart, stintEnd) ==
    SelectSeq(chartData, LAMBDA l : l.lap >= stintStart /\ l.lap <= stintEnd)

\* stintLaps.find(l => l.compound)?.compound
firstCompoundOf(laps) ==
    LET hits == SelectSeq(laps, LAMBDA l : Truthy(l.compound))
    IN IF hits = <<>> THEN NoCompound ELSE hits[1].compound

\* driverLaps?.pit_stops?.find(ps => ps.lap === lap)?.compound_before:
\* the lookup goes to the unsorted pit_stops of the response
compoundBeforeOf(dl, lap) ==
    LET hits == SelectSeq(dl.pit_stops, LAMBDA ps : ps.lap = lap)
    IN IF hits = <<>> THEN NoCompound ELSE hits[1].compound_before

\* chartData[0]?.compound || 'MEDIUM'
firstLapCompoundOf(chartData) == OrElse(chartData[1].compound, "MEDIUM")

\* Mutant of stintCompoundOf: the previous pit stop is never consulted
stintCompoundOf_noInference(dl, chartData, sortedPitStops, idx, stintLaps) ==
    OrElse(firstCompoundOf(stintLaps), firstLapCompoundOf(chartData))

\* The compound of the stint that ends at sortedPitStops[idx] (idx 0-based,
\* as in the forEach callback)
stintCompoundOf(dl, chartData, sortedPitStops, idx, stintLaps) ==
    LET fromLaps == firstCompoundOf(stintLaps)
        fromPrev == IF ~Truthy(fromLaps) /\ idx > 0
                    THEN compoundBeforeOf(dl, sortedPitStops[idx].lap)
                    ELSE fromLaps
    IN IF ~Truthy(fromPrev) THEN firstLapCompoundOf(chartData) ELSE fromPrev

\* Mutant of stintIsPushed: every pit stop closes a stint
stintIsPushed_always(stintStart, stintEnd) == TRUE

\* if (stintStart <= stintEnd) stints.push(...)
stintIsPushed(stintStart, stintEnd) == stintStart <= stintEnd

\* One call of the forEach callback: acc holds stints and stintStart
forEachPitStop(dl, chartData, sortedPitStops, idx, acc) ==
    LET pitStop == sortedPitStops[idx + 1]
        stintEnd == stintEndOf(pitStop)
        stintLaps == stintLapsOf(chartData, acc.stintStart, stintEnd)
        compound == stintCompoundOf(dl, chartData, sortedPitStops, idx, stintLaps)
    IN [stints |->
            IF stintIsPushed(acc.stintStart, stintEnd)
            THEN Append(acc.stints,
                        [compound |-> compound, data |-> stintLaps,
                         startLap |-> acc.stintStart, endLap |-> stintEnd])
            ELSE acc.stints,
        stintStart |-> nextStintStartOf(pitStop)]

\* sortedPitStops.forEach(...) over the first n pit stops, starting from
\* stintStart = firstLap and no stints
RECURSIVE pitStopWalk(_, _, _, _)
pitStopWalk(dl, chartData, sortedPitStops, n) ==
    IF n = 0 THEN [stints |-> <<>>, stintStart |-> firstLapOf(chartData)]
    ELSE forEachPitStop(dl, chartData, sortedPitStops, n - 1,
                        pitStopWalk(dl, chartData, sortedPitStops, n - 1))

\* Mutant of finalCompoundOf: the laps of the final segment come first
finalCompoundOf_lapsFirst(dl, lastPitStop, finalStintLaps) ==
    OrElse(finalStintLaps[1].compound,
           OrElse(compoundBeforeOf(dl, lastPitStop.lap), "HARD"))

\* The compound of the final stint
finalCompoundOf(dl, lastPitStop, finalStintLaps) ==
    OrElse(compoundBeforeOf(dl, lastPitStop.lap),
           OrElse(finalStintLaps[1].compound, "HARD"))

\* Mutant of withFinalStint: nothing is added after the last pit stop
withFinalStint_never(dl, chartData, sortedPitStops, acc) == acc.stints

\* Add final stint (after last pit stop)
withFinalStint(dl, chartData, sortedPitStops, acc) ==
    LET lastLap == lastLapOf(chartData)
        finalStintLaps == stintLapsOf(chartData, acc.stintStart, lastLap)
        lastPitStop == sortedPitStops[Len(sortedPitStops)]
    IN IF Len(finalStintLaps) > 0
       THEN Append(acc.stints,
                   [compound |-> finalCompoundOf(dl, lastPitStop, finalStintLaps),
                    data |-> finalStintLaps,
                    startLap |-> acc.stintStart, endLap |-> lastLap])
       ELSE acc.stints

\* Mutant of singleStintOf: the stint ends at the number of laps, not at
\* the last lap number
singleStintOf_byCount(chartData) ==
    <<[compound |-> OrElse(chartData[1].compound, "MEDIUM"), data |-> chartData,
       startLap |-> chartData[1].lap, endLap |-> Len(chartData)]>>

\* No pit stops - single stint
singleStintOf(chartData) ==
    <<[compound |-> firstLapCompoundOf(chartData), data |-> chartData,
       startLap |-> firstLapOf(chartData), endLap |-> lastLapOf(chartData)]>>

\* The stints array of one render
stintsOf(dl) ==
    LET chartData == chartDataOf(dl)
        pitStopDetails == pitStopDetailsOf(dl)
        sortedPitStops == sortedPitStopsOf(pitStopDetails)
    IN IF Len(chartData) > 0 /\ Len(pitStopDetails) > 0
       THEN withFinalStint(dl, chartData, sortedPitStops,
                pitStopWalk(dl, chartData, sortedPitStops, Len(sortedPitStops)))
       ELSE IF Len(chartData) > 0 THEN singleStintOf(chartData)
       ELSE <<>>

---------------------------------------------------------------------------
(* RaceAnalysis: the lap filter *)

\* A number used as a condition (lap.time): null and 0 are falsy
TruthyNumber(t) == t # Null /\ t # 0

\* chartData.map(l => l.time).filter((t): t is number => t !== null)
timesOf(chartData) ==
    SelectSeq([i \in 1..Len(chartData) |-> chartData[i].time],
              LAMBDA t : t # Null)

\* Math.min(...times), times non-empty
fastestOf(times) == SetMin({times[i] : i \in 1..Len(times)})

\* times.reduce((a, b) => a + b, 0)
RECURSIVE sumOf(_)
sumOf(times) ==
    IF times = <<>> THEN 0
    ELSE sumOf(SubSeq(times, 1, Len(times) - 1)) + times[Len(times)]

Abs(x) == IF x < 0 THEN -x ELSE x

\* Mutant of withinFastest: a 5% threshold
withinFastest_fivePercent(time, fastest) == time * 100 <= fastest * 105

\* lap.time <= fastest * 1.03, compared exactly
withinFastest(time, fastest) == time * 100 <= fastest * 103

\* Mutant of withinAverage: a 3% band around the average
withinAverage_threePercent(time, sum, n) == 100 * Abs(time * n - sum) <= 3 * sum

\* Math.abs(lap.time - average) <= average * 0.02 with
\* average = sum / n, compared exactly (both sides multiplied by 50 * n)
withinAverage(time, sum, n) == 50 * Abs(time * n - sum) <= sum

\* The callback of chartData.filter: is this lap kept?
keepsLap(lap, chartData, filter) ==
    IF filter = "all" THEN TRUE
    ELSE LET times == timesOf(chartData)
         IN IF Len(times) = 0 THEN TRUE
            ELSE IF filter = "fastest" /\ TruthyNumber(lap.time)
                 THEN withinFastest(lap.time, fastestOf(times))
            ELSE IF filter = "average" /\ TruthyNumber(lap.time)
                 THEN withinAverage(lap.time, sumOf(times), Len(times))
            ELSE TRUE

\* Mutant of filteredChartDataOf: laps without a time never pass
filteredChartDataOf_timedOnly(chartData, filter) ==
    SelectSeq(chartData, LAMBDA lap : lap.time # Null /\ keepsLap(lap, chartData, filter))

\* const filteredChartData = chartData.filter(...)
filteredChartDataOf(chartData, filter) ==
    SelectSeq(chartData, LAMBDA lap : keepsLap(lap, chartData, filter))

---------------------------------------------------------------------------
(* TelemetryAnalysis: the chart series *)

\* telemetryData === null is modelled by loaded = FALSE
NoTelemetry ==
    LET none == [Distance |-> <<>>, Speed |-> <<>>, nGear |-> <<>>, RPM |-> <<>>]
    IN [loaded |-> FALSE, lap1 |-> none, lap2 |-> none]

\* Math.min(a, b)
MathMin(a, b) == IF a <= b THEN a ELSE b

\* a - b of two array reads: NaN (no value) when either is undefined
Minus(a, b) == IF a = Null \/ b = Null THEN Null ELSE a - b

\* Mutant of speedLenOf: the length of the first lap alone
speedLenOf_lap1(td) == Len(td.lap1.Distance)

\* The loop bound of prepareSpeedData
speedLenOf(td) == MathMin(Len(td.lap1.Distance), Len(td.lap2.Distance))

prepareSpeedData(td) ==
    IF ~td.loaded THEN <<>>
    ELSE [k \in 1..speedLenOf(td) |->
            [distance |-> At(td.lap1.Distance, k - 1),
             speed1 |-> At(td.lap1.Speed, k - 1),
             speed2 |-> At(td.lap2.Speed, k - 1),
             speedDelta |-> Minus(At(td.lap1.Speed, k - 1),
                                  At(td.lap2.Speed, k - 1))]]

\* The loop bound of prepareGearData
gearLenOf(td) == Len(td.lap1.Distance)

prepareGearData(td) ==
    IF ~td.loaded THEN <<>>
    ELSE [k \in 1..gearLenOf(td) |->
            [distance |-> At(td.lap1.Distance, k - 1),
             gear1 |-> At(td.lap1.nGear, k - 1),
             gear2 |-> At(td.lap2.nGear, k - 1)]]

\* The loop bound of prepareRPMData
rpmLenOf(td) == Len(td.lap1.Distance)

prepareRPMData(td) ==
    IF ~td.loaded THEN <<>>
    ELSE [k \in 1..rpmLenOf(td) |->
            [distance |-> At(td.lap1.Distance, k - 1),
             rpm1 |-> At(td.lap1.RPM, k - 1),
             rpm2 |-> At(td.lap2.RPM, k - 1)]]

---------------------------------------------------------------------------
(* The comparison engine of the backend (GET /comparison/...): a driver's  *)
(* laps are a function from lap number to lap time                         *)

\* The laps present for both drivers, paired by lap number
pairedLapsOf(laps1, laps2) == DOMAIN laps1 \cap DOMAIN laps2

RECURSIVE sumOver(_, _)
sumOver(laps, N) ==
    IF N = {} THEN 0
    ELSE LET n == CHOOSE x \in N : TRUE IN laps[n] + sumOver(laps, N \ {n})

\* A quotient kept exact: numerator and denominator
Quotient(num, den) == [num |-> num, den |-> den]

\* Mutant of avgGapOf: the difference of the sums is averaged over all of
\* driver1's laps, paired or not
avgGapOf_overDriver1Laps(laps1, laps2) ==
    LET paired == pairedLapsOf(laps1, laps2)
    IN Quotient(sumOver(laps1, paired) - sumOver(laps2, paired),
                Cardinality(DOMAIN laps1))

\* avgGap = mean(driver1.times) - mean(driver2.times) over the paired laps
avgGapOf(laps1, laps2) ==
    LET paired == pairedLapsOf(laps1, laps2)
    IN Quotient(sumOver(laps1, paired) - sumOver(laps2, paired),
                Cardinality(paired))

\* fastestLapGap = min(driver1.times) - min(driver2.times)
fastestLapGapOf(laps1, laps2) ==
    SetMin({laps1[n] : n \in DOMAIN laps1}) - SetMin({laps2[n] : n \in DOMAIN laps2})

\* driverXFasterLaps: the paired laps where the first driver's time is
\* strictly less than the other's
fasterLapsOf(laps1, laps2) ==
    Cardinality({n \in pairedLapsOf(laps1, laps2) : laps1[n] < laps2[n]})

\* compareDrivers(laps1, laps2): the Comparison record, or the
\* NoComparableLaps condition when no lap is paired
compareDrivers(code1, laps1, code2, laps2) ==
    IF pairedLapsOf(laps1, laps2) = {}
    THEN [ok |-> FALSE, detail |-> "NoComparableLaps"]
    ELSE [ok |-> TRUE,
          data |-> [loaded |-> TRUE,
                    driver1 |-> code1,
                    driver2 |-> code2,
                    avg_gap |-> avgGapOf(laps1, laps2),
                    fastest_lap_gap |-> fastestLapGapOf(laps1, laps2),
                    driver1_faster_laps |-> fasterLapsOf(laps1, laps2),
                    driver2_faster_laps |-> fasterLapsOf(laps2, laps1)]]

---------------------------------------------------------------------------
(* DriverComparison: state and the Battle Stats figure *)

\* useState<Comparison | null>(null)
NoComparison == [loaded |-> FALSE]

\* useState<string | null>(null)
NoError == ""

\* the quotient a / b of two numbers as JavaScript evaluates it: NaN for
\* 0 / 0, else the percentage that toFixed(0) prints (rounded to nearest)
PercentOf(a, b) ==
    IF b = 0 THEN [nan |-> TRUE, percent |-> 0]
    ELSE [nan |-> FALSE, percent |-> (200 * a + b) \div (2 * b)]

\* {comparison && ... ((driver1_faster_laps / (driver1_faster_laps +
\* driver2_faster_laps)) * 100).toFixed(0)}%
battleStatsOf(comparison) ==
    IF ~comparison.loaded THEN [shown |-> FALSE]
    ELSE [shown |-> TRUE,
          dominance |-> PercentOf(comparison.driver1_faster_laps,
                                  comparison.driver1_faster_laps
                                    + comparison.driver2_faster_laps)]

---------------------------------------------------------------------------
(* TelemetryAnalysis: the state of a render and the four effects.  An      *)
(* effect runs after a render whose dependencies differ from the previous  *)
(* render's; it reads the state of its render (cur) and its setState calls *)
(* are batched into the next render (acc.state); the fetches it starts are *)
(* collected in acc.issued.                                                *)

\* useState<CircuitLayout | null>(null)
NoLayout == [loaded |-> FALSE]

\* fetch(`.../races/${year}`)
RacesRequest(cur) ==
    [kind |-> "races", year |-> cur.year, race |-> Null,
     driver1 |-> "", driver2 |-> ""]

\* fetch(`.../telemetry/${year}/${selectedRace}/${driver1}/${driver2}`)
TelemetryRequest(cur) ==
    [kind |-> "telemetry", year |-> cur.year, race |-> cur.selectedRace,
     driver1 |-> cur.driver1, driver2 |-> cur.driver2]

\* fetch(`.../drivers/${year}/${selectedRace}`); loadDrivers keeps the
\* driver1 and driver2 of its render for the default-driver test
DriversRequest(cur) ==
    [kind |-> "drivers", year |-> cur.year, race |-> cur.selectedRace,
     driver1 |-> cur.driver1, driver2 |-> cur.driver2]

\* fetch(`.../circuit-layout/${year}/${selectedRace}`)
LayoutRequest(cur) ==
    [kind |-> "layout", year |-> cur.year, race |-> cur.selectedRace,
     driver1 |-> "", driver2 |-> ""]

Issue(acc, request) == acc.issued (+) SetToBag({request})

\* Mutant of racesEffect: the selected race survives the change of year
racesEffect_keepsRace(prev, cur, acc) ==
    IF prev.year = cur.year THEN acc
    ELSE [state |-> [acc.state EXCEPT !.telemetryData = NoTelemetry,
                                      !.circuitLayout = NoLayout,
                                      !.availableDrivers = <<>>],
          issued |-> Issue(acc, RacesRequest(cur))]

\* useEffect(..., [year]): clear old data, then loadRaces()
racesEffect(prev, cur, acc) ==
    IF prev.year = cur.year THEN acc
    ELSE [state |-> [acc.state EXCEPT !.telemetryData = NoTelemetry,
                                      !.circuitLayout = NoLayout,
                                      !.availableDrivers = <<>>,
                                      !.selectedRace = Null],
          issued |-> Issue(acc, RacesRequest(cur))]

\* useEffect(..., [year, selectedRace, driver1, driver2, loadingDrivers]):
\* loadTelemetry() up to its await
telemetryEffect(prev, cur, acc) ==
    IF <<prev.year, prev.selectedRace, prev.driver1, prev.driver2, prev.loadingDrivers>>
         = <<cur.year, cur.selectedRace, cur.driver1, cur.driver2, cur.loadingDrivers>>
    THEN acc
    ELSE IF ~TruthyNumber(cur.selectedRace) \/ cur.driver1 = "" \/ cur.driver2 = ""
    THEN acc
    ELSE IF cur.loadingDrivers THEN acc
    ELSE [state |-> [acc.state EXCEPT !.loading = TRUE, !.error = NoError],
          issued |-> Issue(acc, TelemetryRequest(cur))]

\* useEffect(..., [year, selectedRace]): loadDrivers() up to its await
driversEffect(prev, cur, acc) ==
    IF <<prev.year, prev.selectedRace>> = <<cur.year, cur.selectedRace>> THEN acc
    ELSE IF ~TruthyNumber(cur.selectedRace) THEN acc
    ELSE [state |-> [acc.state EXCEPT !.loadingDrivers = TRUE,
                                      !.telemetryData = NoTelemetry,
                                      !.circuitLayout = NoLayout],
          issued |-> Issue(acc, DriversRequest(cur))]

\* useEffect(..., [year, selectedRace]): loadCircuitLayout() up to its await
layoutEffect(prev, cur, acc) ==
    IF <<prev.year, prev.selectedRace>> = <<cur.year, cur.selectedRace>> THEN acc
    ELSE IF ~TruthyNumber(cur.selectedRace) THEN acc
    ELSE [state |-> acc.state, issued |-> Issue(acc, LayoutRequest(cur))]

\* The effects of one render, in the order they are declared
effectPass(prev, cur) ==
    layoutEffect(prev, cur,
        driversEffect(prev, cur,
            telemetryEffect(prev, cur,
                racesEffect(prev, cur, [state |-> cur, issued |-> EmptyBag]))))

\* Render cur after prev, run its effects, render again with the state
\* they set, until a render's effects set nothing new
RECURSIVE settle(_, _, _)
settle(prev, cur, issued) ==
    LET pass == effectPass(prev, cur)
    IN IF pass.state = cur
       THEN [state |-> cur, issued |-> issued (+) pass.issued]
       ELSE settle(cur, pass.state, issued (+) pass.issued)

\* setDriver1 / setDriver2 of loadDrivers: a driver that is not in the
\* list gives way to the list's first (second) driver
defaultDriver1(drivers, code) ==
    IF Len(drivers) > 0 /\ \A i \in 1..Len(drivers) : drivers[i].code # code
    THEN drivers[1].code
    ELSE code

defaultDriver2(drivers, code) ==
    IF Len(drivers) > 0 /\ \A i \in 1..Len(drivers) : drivers[i].code # code
    THEN IF Len(drivers) > 1 THEN drivers[2].code ELSE drivers[1].code
    ELSE code

---------------------------------------------------------------------------
(* The fetched data the specifications range over *)

SeqsUpTo(S, n) == UNION {[1..k -> S] : k \in 0..n}

LapNumbers == 1..MaxLap

\* Lap records in ascending lap_number order, with gaps allowed: one
\* sequence per set of lap numbers and per choice of time and compound
LapSeqs(Times, Compounds) ==
    UNION {
        {[i \in 1..Cardinality(N) |->
            [lap_number |-> Ascending(N)[i],
             time |-> f[Ascending(N)[i]][1],
             compound |-> f[Ascending(N)[i]][2]]] :
         f \in [N -> Times \X Compounds]} :
        N \in SUBSET LapNumbers}

\* Complete lap records: laps 1..n, none missing
ContiguousLapSeqs(Times, Compounds) ==
    UNION {[1..n -> [lap_number : {0}, time : Times, compound : Compounds]] :
           n \in 0..MaxLap}

NumberedFromOne(laps) ==
    [i \in 1..Len(laps) |-> [laps[i] EXCEPT !.lap_number = i]]

\* Pit-stop laps include laps outside the observed range and a negative lap
PitLaps == (-1)..(MaxLap + 1)

\* Pit-stop lists in any order, duplicates included
PitSeqs(Laps, Compounds) ==
    SeqsUpTo([lap : Laps, compound_before : Compounds], MaxPits)

\* Inputs of the stint reconstruction (the time of a lap is not read):
\* complete lap records over three compounds with pit stops in the race;
\* and lap records with gaps and pit stops on any lap, in and out of range
StintInputs ==
    [laps : {NumberedFromOne(l) :
                l \in ContiguousLapSeqs({100}, {NoCompound, "SOFT", "MEDIUM"})},
     pit_stops : PitSeqs(LapNumbers, {NoCompound, "SOFT"})]
    \cup
    [laps : LapSeqs({100}, {NoCompound, "SOFT"}),
     pit_stops : PitSeqs(PitLaps, {NoCompound, "HARD"})]

\* Inputs of the lap filter: times within and beyond 3% of each other, and
\* laps without a time
FilterInputs ==
    [laps : LapSeqs({Null, 100, 103, 104}, {"SOFT"}), pit_stops : {<<>>}]

LapFilters == {"all", "fastest", "average"}

\* One lap's telemetry as parallel arrays of equal length
TelemetryOf(samples) ==
    [Distance |-> [k \in 1..Len(samples) |-> samples[k][1]],
     Speed |-> [k \in 1..Len(samples) |-> samples[k][2]],
     nGear |-> [k \in 1..Len(samples) |-> samples[k][3]],
     RPM |-> [k \in 1..Len(samples) |-> samples[k][4]]]

Samples == {10, 20} \X {200, 250} \X {3, 4} \X {9000}

TelemetryLaps == {TelemetryOf(s) : s \in SeqsUpTo(Samples, MaxSamples)}

TelemetryInputs ==
    {NoTelemetry} \cup [loaded : {TRUE}, lap1 : TelemetryLaps, lap2 : TelemetryLaps]

\* The drivers offered by the driver selects
DRIVERS == {"VER", "HAM"}

\* A driver's laps of the race: any set of lap numbers, a time for each
TimedLaps == UNION {[N -> {90, 91, 92}] : N \in SUBSET (1..MaxPairedLaps)}

LapTimesInputs == [DRIVERS -> TimedLaps]

\* The years of the year select
Years == {2025, 2024}

\* The backend's answers: the races of a year, the drivers of a race, the
\* telemetry of two drivers in a race, the layout of a race's circuit
RacesOf(y) == <<[round |-> 1]>>

DriversAt(y, round) ==
    IF y = 2025 THEN <<[code |-> "VER"], [code |-> "HAM"]>>
    ELSE <<[code |-> "LEC"]>>

\* The samples of a lap differ from race to race and from year to year
TelemetryAt(request) ==
    [loaded |-> TRUE,
     driver1 |-> request.driver1,
     driver2 |-> request.driver2,
     lap1 |-> TelemetryOf(<<<<10, 200 + request.race, 3, 9000 + request.year>>>>),
     lap2 |-> TelemetryOf(<<<<10, 250 + request.race, 4, 9000 + request.year>>>>)]

LayoutAt(y, round) == [loaded |-> TRUE, year |-> y, round |-> round]

---------------------------------------------------------------------------
(* Actions *)

RaceIdle ==
    /\ driverLaps = [laps |-> <<>>, pit_stops |-> <<>>]
    /\ lapFilter = "all"
    /\ stints = <<>>
    /\ filteredChartData = <<>>
    /\ missingLapNumbers = <<>>

TelemetryIdle ==
    /\ telemetryData = NoTelemetry
    /\ speedData = <<>>
    /\ gearData = <<>>
    /\ rpmData = <<>>

\* DriverComparison as mounted: VER against HAM, nothing compared yet
DriverComparisonMounted ==
    /\ driverComparison = [driver1 |-> "VER", driver2 |-> "HAM",
                           comparison |-> NoComparison,
                           loading |-> FALSE, error |-> NoError]
    /\ comparisonRequests = {}
    /\ battleStats = battleStatsOf(NoComparison)

ComparisonIdle ==
    /\ lapTimes = [d \in DRIVERS |-> <<>>]
    /\ DriverComparisonMounted

\* TelemetryAnalysis as constructed: the useState initial values
TelemetryAnalysisMounted ==
    /\ year = 2025
    /\ selectedRace = Null
    /\ driver1 = "VER"
    /\ driver2 = "HAM"
    /\ races = <<>>
    /\ availableDrivers = <<>>
    /\ circuitLayout = NoLayout
    /\ loading = FALSE
    /\ loadingDrivers = FALSE
    /\ error = NoError

PageIdle ==
    /\ TelemetryAnalysisMounted
    /\ requests = EmptyBag

\* RaceAnalysis renders with the fetched driverLaps: everything derived
\* from the state is computed
RenderRace ==
    /\ pc = "fetched"
    /\ stints' = stintsOf(driverLaps)
    /\ filteredChartData' = filteredChartDataOf(chartDataOf(driverLaps), lapFilter)
    /\ missingLapNumbers' = missingLapNumbersOf(chartDataOf(driverLaps))
    /\ pc' = "rendered"
    /\ UNCHANGED <<page, driverLaps, lapFilter, telemetryVars, comparisonVars, pageVars, dashboardVars, loadVars>>

\* onClick={() => setLapFilter(f)} and the render that follows; the filter
\* buttons exist only when chartData.length > 0
SetLapFilter(f) ==
    /\ pc = "rendered"
    /\ Len(chartDataOf(driverLaps)) > 0
    /\ lapFilter' = f
    /\ stints' = stintsOf(driverLaps)
    /\ filteredChartData' = filteredChartDataOf(chartDataOf(driverLaps), f)
    /\ missingLapNumbers' = missingLapNumbersOf(chartDataOf(driverLaps))
    /\ UNCHANGED <<page, driverLaps, telemetryVars, pc, comparisonVars, pageVars, dashboardVars, loadVars>>

\* TelemetryAnalysis renders with the fetched telemetryData
RenderTelemetry ==
    /\ pc = "fetched"
    /\ speedData' = prepareSpeedData(telemetryData)
    /\ gearData' = prepareGearData(telemetryData)
    /\ rpmData' = prepareRPMData(telemetryData)
    /\ pc' = "rendered"
    /\ UNCHANGED <<page, telemetryData, raceVars, comparisonVars, pageVars, dashboardVars, loadVars>>

\* <select value={driver1} onChange={(e) => setDriver1(e.target.value)}>
\* and the render that follows; the driver selects are never disabled
SetDriver1(d) ==
    /\ driverComparison' = [driverComparison EXCEPT !.driver1 = d]
    /\ battleStats' = battleStatsOf(driverComparison'.comparison)
    /\ UNCHANGED <<page, lapTimes, comparisonRequests, raceVars, telemetryVars, pageVars, pc, dashboardVars, loadVars>>

SetDriver2(d) ==
    /\ driverComparison' = [driverComparison EXCEPT !.driver2 = d]
    /\ battleStats' = battleStatsOf(driverComparison'.comparison)
    /\ UNCHANGED <<page, lapTimes, comparisonRequests, raceVars, telemetryVars, pageVars, pc, dashboardVars, loadVars>>

\* <Button onClick={loadComparison} disabled={loading}>: loadComparison up
\* to its await
LoadComparison ==
    /\ ~driverComparison.loading
    /\ driverComparison' = [driverComparison EXCEPT !.loading = TRUE,
                                                    !.error = NoError]
    /\ comparisonRequests' = comparisonRequests \cup
            {[driver1 |-> driverComparison.driver1,
              driver2 |-> driverComparison.driver2]}
    /\ battleStats' = battleStatsOf(driverComparison'.comparison)
    /\ UNCHANGED <<page, lapTimes, raceVars, telemetryVars, pageVars, pc, dashboardVars, loadVars>>

\* loadComparison after its await, the backend having answered: the
\* Comparison is stored, or the error detail of the response is
ComparisonArrives(request) ==
    /\ request \in comparisonRequests
    /\ LET response == compareDrivers(request.driver1, lapTimes[request.driver1],
                                      request.driver2, lapTimes[request.driver2])
       IN driverComparison' =
              IF response.ok
              THEN [driverComparison EXCEPT !.comparison = response.data,
                                            !.loading = FALSE]
              ELSE [driverComparison EXCEPT !.error = response.detail,
                                            !.loading = FALSE]
    /\ comparisonRequests' = comparisonRequests \ {request}
    /\ battleStats' = battleStatsOf(driverComparison'.comparison)
    /\ UNCHANGED <<page, lapTimes, raceVars, telemetryVars, pageVars, pc, dashboardVars, loadVars>>

\* loadComparison after its await, the request having failed without a
\* response
ComparisonFails(request) ==
    /\ request \in comparisonRequests
    /\ driverComparison' = [driverComparison EXCEPT
                               !.error = "Failed to load comparison data",
                               !.loading = FALSE]
    /\ comparisonRequests' = comparisonRequests \ {request}
    /\ battleStats' = battleStatsOf(driverComparison'.comparison)
    /\ UNCHANGED <<page, lapTimes, raceVars, telemetryVars, pageVars, pc, dashboardVars, loadVars>>

\* The state of the current render of TelemetryAnalysis
PageState ==
    [year |-> year, selectedRace |-> selectedRace,
     driver1 |-> driver1, driver2 |-> driver2,
     races |-> races, availableDrivers |-> availableDrivers,
     telemetryData |-> telemetryData, circuitLayout |-> circuitLayout,
     loading |-> loading, loadingDrivers |-> loadingDrivers, error |-> error]

\* The state set by a handler is rendered, the effects run until they set
\* nothing new; the answered requests leave the pending ones and the
\* fetches started by the effects join them
Commit(cur, answered) ==
    \E done \in {settle(PageState, cur, EmptyBag)} :
       /\ year' = done.state.year
       /\ selectedRace' = done.state.selectedRace
       /\ driver1' = done.state.driver1
       /\ driver2' = done.state.driver2
       /\ races' = done.state.races
       /\ availableDrivers' = done.state.availableDrivers
       /\ telemetryData' = done.state.telemetryData
       /\ circuitLayout' = done.state.circuitLayout
       /\ loading' = done.state.loading
       /\ loadingDrivers' = done.state.loadingDrivers
       /\ error' = done.state.error
       /\ requests' = (requests (-) answered) (+) done.issued
       /\ speedData' = prepareSpeedData(done.state.telemetryData)
       /\ gearData' = prepareGearData(done.state.telemetryData)
       /\ rpmData' = prepareRPMData(done.state.telemetryData)
       /\ UNCHANGED <<page, raceVars, comparisonVars, pc, dashboardVars, loadVars>>

NoRequest == EmptyBag
Answered(request) == SetToBag({request})

\* disabled={loading || loadingDrivers}
SelectsEnabled ==
    /\ ~(loading \/ loadingDrivers)
    /\ BagCardinality(requests) <= MaxPending

\* Year select: onChange={(e) => setYear(Number(e.target.value))}
SetYear(y) ==
    /\ SelectsEnabled
    /\ y # year
    /\ Commit([PageState EXCEPT !.year = y], NoRequest)

\* Race select: onChange={(e) => setSelectedRace(Number(e.target.value))};
\* the options are "" (Number('') is 0) and the rounds of races
SetSelectedRace(round) ==
    /\ SelectsEnabled
    /\ round = 0 \/ \E i \in 1..Len(races) : races[i].round = round
    /\ round # (IF TruthyNumber(selectedRace) THEN selectedRace ELSE 0)
    /\ Commit([PageState EXCEPT !.selectedRace = round], NoRequest)

\* Driver selects: onChange={(e) => setDriver1(e.target.value)},
\* disabled={availableDrivers.length === 0 || loading || loadingDrivers}
TelemetrySetDriver1(i) ==
    /\ SelectsEnabled
    /\ i \in 1..Len(availableDrivers)
    /\ availableDrivers[i].code # driver1
    /\ Commit([PageState EXCEPT !.driver1 = availableDrivers[i].code], NoRequest)

TelemetrySetDriver2(i) ==
    /\ SelectsEnabled
    /\ i \in 1..Len(availableDrivers)
    /\ availableDrivers[i].code # driver2
    /\ Commit([PageState EXCEPT !.driver2 = availableDrivers[i].code], NoRequest)

\* loadRaces after its await, response ok
RacesArrive(request) ==
    /\ BagIn(request, requests) /\ request.kind = "races"
    /\ Commit([PageState EXCEPT !.races = RacesOf(request.year),
                                !.selectedRace = Null],
              Answered(request))

\* loadRaces after its await, the fetch failed or the response is not ok
RacesFail(request) ==
    /\ BagIn(request, requests) /\ request.kind = "races"
    /\ Commit([PageState EXCEPT !.error = "Failed to load races",
                                !.races = <<>>,
                                !.selectedRace = Null],
              Answered(request))

\* loadTelemetry after its await, response ok
TelemetryArrives(request) ==
    /\ BagIn(request, requests) /\ request.kind = "telemetry"
    /\ Commit([PageState EXCEPT !.telemetryData = TelemetryAt(request),
                                !.loading = FALSE],
              Answered(request))

\* loadTelemetry after its await, the fetch failed or the response is not ok
TelemetryFails(request) ==
    /\ BagIn(request, requests) /\ request.kind = "telemetry"
    /\ Commit([PageState EXCEPT !.error = "Failed to load telemetry data",
                                !.telemetryData = NoTelemetry,
                                !.loading = FALSE],
              Answered(request))

\* loadDrivers after its await, response ok
DriversArrive(request) ==
    /\ BagIn(request, requests) /\ request.kind = "drivers"
    /\ LET drivers == DriversAt(request.year, request.race)
       IN Commit([PageState EXCEPT
                     !.availableDrivers = drivers,
                     !.driver1 = defaultDriver1(drivers, request.driver1),
                     !.driver2 = defaultDriver2(drivers, request.driver2),
                     !.loadingDrivers = FALSE],
                 Answered(request))

\* Mutant of DriversFail: the early return of the non-OK response leaves
\* loadingDrivers set
DriversFail_noReset(request) ==
    /\ BagIn(request, requests) /\ request.kind = "drivers"
    /\ Commit(PageState, Answered(request))

\* loadDrivers after its await, the fetch failed or the response is not ok
DriversFail(request) ==
    /\ BagIn(request, requests) /\ request.kind = "drivers"
    /\ Commit([PageState EXCEPT !.loadingDrivers = FALSE], Answered(request))

\* loadCircuitLayout after its await, response ok
LayoutArrives(request) ==
    /\ BagIn(request, requests) /\ request.kind = "layout"
    /\ Commit([PageState EXCEPT
                  !.circuitLayout = LayoutAt(request.year, request.race)],
              Answered(request))

\* loadCircuitLayout after its await, the fetch failed or the response is
\* not ok
LayoutFails(request) ==
    /\ BagIn(request, requests) /\ request.kind = "layout"
    /\ Commit(PageState, Answered(request))

---------------------------------------------------------------------------
(* Dashboard.tsx: the season select, loadRaces and the three race cards *)

MaxRaces == 2        \* a season has at most MaxRaces races

\* const today = new Date('2025-12-03'); dates are compared as yyyymmdd
today == 20251203

\* The dates a race can have: before today, today, after today
RaceDates == {20251123, 20251130, 20251203, 20251207}

\* A season of the backend: its races by round, each with a name and a date
SeasonOf(dates) ==
    [i \in 1..Len(dates) |->
        [round |-> i, race_name |-> <<"Grand Prix", i>>, date |-> dates[i]]]

\* The seasons the backend can answer with: the dates in any order
Seasons ==
    {SeasonOf(dates) : dates \in UNION {[1..n -> RaceDates] : n \in 0..MaxRaces}}

\* The text of the Completed card when no race is completed
NoneYet == "None yet"

\* Array.prototype.sort is stable: a race goes behind the races that do not
\* sort after it
InsertNewestFirst(sorted, r) ==
    LET k == Cardinality({i \in 1..Len(sorted) : sorted[i].date >= r.date})
    IN SubSeq(sorted, 1, k) \o <<r>> \o SubSeq(sorted, k + 1, Len(sorted))

InsertSoonestFirst(sorted, r) ==
    LET k == Cardinality({i \in 1..Len(sorted) : sorted[i].date <= r.date})
    IN SubSeq(sorted, 1, k) \o <<r>> \o SubSeq(sorted, k + 1, Len(sorted))

\* .sort((a, b) => new Date(b.date).getTime() - new Date(a.date).getTime())
RECURSIVE newestFirst(_)
newestFirst(list) ==
    IF list = <<>> THEN <<>>
    ELSE InsertNewestFirst(newestFirst(SubSeq(list, 1, Len(list) - 1)),
                           list[Len(list)])

\* .sort((a, b) => new Date(a.date).getTime() - new Date(b.date).getTime())
RECURSIVE soonestFirst(_)
soonestFirst(list) ==
    IF list = <<>> THEN <<>>
    ELSE InsertSoonestFirst(soonestFirst(SubSeq(list, 1, Len(list) - 1)),
                            list[Len(list)])

\* races.filter(r => new Date(r.date) < today).sort(newest first)
completedRacesOf(list) ==
    newestFirst(SelectSeq(list, LAMBDA r : r.date < today))

\* races.filter(r => new Date(r.date) >= today).sort(soonest first)
upcomingRacesOf(list) ==
    soonestFirst(SelectSeq(list, LAMBDA r : r.date >= today))

\* completedRaces.length > 0
\*   ? `Latest: ${completedRaces[completedRaces.length - 1]?.race_name}`
\*   : 'None yet'
latestRaceOf(completed) ==
    IF Len(completed) > 0 THEN completed[Len(completed)].race_name ELSE NoneYet

\* The render of Dashboard with its state
DashboardRenders ==
    /\ completedRaces' = completedRacesOf(dashboard'.races)
    /\ upcomingRaces' = upcomingRacesOf(dashboard'.races)
    /\ latestRace' = latestRaceOf(completedRacesOf(dashboard'.races))

\* Dashboard as constructed: the useState initial values and their render
DashboardConstructed ==
    /\ dashboard = [races |-> <<>>, loading |-> TRUE, selectedYear |-> 2025]
    /\ completedRaces = <<>>
    /\ upcomingRaces = <<>>
    /\ latestRace = NoneYet

\* Dashboard not on screen
DashboardIdle ==
    /\ calendar = [y \in Years |-> <<>>]
    /\ DashboardConstructed
    /\ dashboardRequests = EmptyBag

\* Dashboard after its first render: useEffect(..., [selectedYear]) has
\* called loadRaces(), which waits for getRaces(2025)
DashboardMounted ==
    /\ DashboardConstructed
    /\ dashboardRequests = SetToBag({2025})

\* Season select: onChange={(e) => setSelectedYear(Number(e.target.value))},
\* then the effect of the render that follows: loadRaces() up to its await
SetSelectedYear(y) ==
    /\ y # dashboard.selectedYear
    /\ BagCardinality(dashboardRequests) <= MaxPending
    /\ dashboard' = [dashboard EXCEPT !.selectedYear = y, !.loading = TRUE]
    /\ dashboardRequests' = dashboardRequests (+) SetToBag({y})
    /\ DashboardRenders
    /\ UNCHANGED <<page, calendar, raceVars, telemetryVars, comparisonVars, pageVars,
                   pc, loadVars>>

\* loadRaces after its await, getRaces resolved: setRaces(data), and the
\* finally block
DashboardRacesArrive(y) ==
    /\ BagIn(y, dashboardRequests)
    /\ dashboard' = [dashboard EXCEPT !.races = calendar[y], !.loading = FALSE]
    /\ dashboardRequests' = dashboardRequests (-) SetToBag({y})
    /\ DashboardRenders
    /\ UNCHANGED <<page, calendar, raceVars, telemetryVars, comparisonVars, pageVars,
                   pc, loadVars>>

\* loadRaces after its await, getRaces rejected: the catch logs, and the
\* finally block
DashboardRacesFail(y) ==
    /\ BagIn(y, dashboardRequests)
    /\ dashboard' = [dashboard EXCEPT !.loading = FALSE]
    /\ dashboardRequests' = dashboardRequests (-) SetToBag({y})
    /\ DashboardRenders
    /\ UNCHANGED <<page, calendar, raceVars, telemetryVars, comparisonVars, pageVars,
                   pc, loadVars>>

---------------------------------------------------------------------------
(* RaceAnalysis.tsx: loadDrivers and loadDriverData. year and round are     *)
(* the parameters of the route and do not change while the page is shown.  *)

\* useState<DriverLaps | null>(null), useState<PaceAnalysis | null>(null)
NoData == [loaded |-> FALSE]

\* The backend's answers for a driver of the race
DriverLapsAt(driver) == [loaded |-> TRUE, driver |-> driver, of |-> "laps"]
PaceAnalysisAt(driver) == [loaded |-> TRUE, driver |-> driver, of |-> "pace"]

MaxDrivers == 2      \* a race's driver list has at most MaxDrivers drivers

\* The drivers a race can have
RaceDrivers == {"VER", "HAM", "LEC"}

\* The driver lists GET /drivers/{year}/{round} can answer with: distinct
\* drivers in any order
DriverLists ==
    LET codeLists ==
            {codes \in UNION {[1..n -> RaceDrivers] : n \in 0..MaxDrivers} :
                \A i, j \in DOMAIN codes : i # j => codes[i] # codes[j]}
    IN {[i \in DOMAIN codes |-> [code |-> codes[i]]] : codes \in codeLists}

\* err.response?.data?.detail of a rejected request: none, or the detail
ErrorDetails == {"", "No lap data for this driver"}

\* data.drivers.map((d: Driver) => d.code)
driverCodesOf(drivers) == {drivers[i].code : i \in 1..Len(drivers)}

\* if (data.drivers.length > 0) { if (!selectedDriver ||
\* !driverCodes.includes(selectedDriver)) setSelectedDriver(data.drivers[0].code) }
\* with the selectedDriver of the render that called loadDrivers
autoSelectedDriver(drivers, selectedDriver, current) ==
    IF Len(drivers) > 0
       /\ (selectedDriver = "" \/ selectedDriver \notin driverCodesOf(drivers))
    THEN drivers[1].code
    ELSE current

\* Mutant of driverDataLoaded: only the laps are stored
driverDataLoaded_lapsOnly(state, lapsData, paceData) ==
    [state EXCEPT !.driverLaps = lapsData]

\* setDriverLaps(lapsData); setPaceAnalysis(paceData)
driverDataLoaded(state, lapsData, paceData) ==
    [state EXCEPT !.driverLaps = lapsData, !.paceAnalysis = paceData]

\* setError(err.response?.data?.detail || 'Failed to load data. Try another
\* driver or race.')
driverDataFailed(state, detail) ==
    [state EXCEPT !.error =
        OrElse(detail, "Failed to load data. Try another driver or race.")]

\* loadDriverData started in a render with this state: its early returns
startsDriverData(state) ==
    state.selectedDriver # "" /\ ~state.loadingDrivers

\* loadDriverData up to its await: setLoading(true); setError(null)
driverDataStarted(state) ==
    IF startsDriverData(state)
    THEN [state EXCEPT !.loading = TRUE, !.error = NoError]
    ELSE state

DataRequest(state) == [kind |-> "data", selectedDriver |-> state.selectedDriver]

DriversRequestOf(state) == [kind |-> "drivers", selectedDriver |-> state.selectedDriver]

\* The requests loadDriverData of a render with this state starts
dataRequestsOf(state) ==
    IF startsDriverData(state) THEN SetToBag({DataRequest(state)}) ELSE EmptyBag

\* RaceAnalysis as constructed: the useState initial values
RaceAnalysisConstructed ==
    [selectedDriver |-> "", availableDrivers |-> <<>>, loadingDrivers |-> FALSE,
     driverLaps |-> NoData, paceAnalysis |-> NoData, loading |-> FALSE,
     error |-> NoError]

\* RaceAnalysis not on screen
RaceAnalysisIdle ==
    /\ raceAnalysis = RaceAnalysisConstructed
    /\ raceRequests = EmptyBag

\* RaceAnalysis after its first render: useEffect(..., [year, round]) has
\* called loadDrivers(), which waits for the driver list; the effect of
\* selectedDriver has not called loadDriverData (no driver selected)
RaceAnalysisMounted ==
    /\ raceAnalysis = [RaceAnalysisConstructed EXCEPT !.loadingDrivers = TRUE]
    /\ raceRequests = SetToBag({DriversRequestOf(RaceAnalysisConstructed)})

\* loadDrivers after its await, the list read: setAvailableDrivers, the
\* automatic selection, the finally block; then the effect of
\* [year, round, selectedDriver] of the render that follows calls
\* loadDriverData when the selected driver has changed
RaceDriversArrive(request, drivers) ==
    /\ BagIn(request, raceRequests) /\ request.kind = "drivers"
    /\ LET set == [raceAnalysis EXCEPT
                      !.availableDrivers = drivers,
                      !.selectedDriver =
                          autoSelectedDriver(drivers, request.selectedDriver, @),
                      !.loadingDrivers = FALSE]
           changed == set.selectedDriver # raceAnalysis.selectedDriver
       IN /\ raceAnalysis' = IF changed THEN driverDataStarted(set) ELSE set
          /\ raceRequests' = (raceRequests (-) SetToBag({request}))
                             (+) (IF changed THEN dataRequestsOf(set) ELSE EmptyBag)
    /\ UNCHANGED <<page, raceVars, telemetryVars, comparisonVars, pageVars, pc,
                   dashboardVars>>

\* loadDrivers after its await, the fetch rejected: the catch and the
\* finally block
RaceDriversFail(request) ==
    /\ BagIn(request, raceRequests) /\ request.kind = "drivers"
    /\ raceAnalysis' = [raceAnalysis EXCEPT
                           !.error = "Failed to load drivers for this race",
                           !.loadingDrivers = FALSE]
    /\ raceRequests' = raceRequests (-) SetToBag({request})
    /\ UNCHANGED <<page, raceVars, telemetryVars, comparisonVars, pageVars, pc,
                   dashboardVars>>

\* Driver select: onChange={(e) => setSelectedDriver(e.target.value)},
\* disabled={availableDrivers.length === 0 || loading || loadingDrivers};
\* then the effect of the render that follows calls loadDriverData
SetSelectedDriver(d) ==
    /\ Len(raceAnalysis.availableDrivers) > 0
    /\ ~(raceAnalysis.loading \/ raceAnalysis.loadingDrivers)
    /\ d \in driverCodesOf(raceAnalysis.availableDrivers)
    /\ d # raceAnalysis.selectedDriver
    /\ LET set == [raceAnalysis EXCEPT !.selectedDriver = d]
       IN /\ raceAnalysis' = driverDataStarted(set)
          /\ raceRequests' = raceRequests (+) dataRequestsOf(set)
    /\ UNCHANGED <<page, raceVars, telemetryVars, comparisonVars, pageVars, pc,
                   dashboardVars>>

\* <button onClick={loadDriverData}
\*         disabled={loading || loadingDrivers || !selectedDriver}>
LoadData ==
    /\ ~(raceAnalysis.loading \/ raceAnalysis.loadingDrivers)
    /\ raceAnalysis.selectedDriver # ""
    /\ raceAnalysis' = driverDataStarted(raceAnalysis)
    /\ raceRequests' = raceRequests (+) dataRequestsOf(raceAnalysis)
    /\ UNCHANGED <<page, raceVars, telemetryVars, comparisonVars, pageVars, pc,
                   dashboardVars>>

\* loadDriverData after its await, Promise.all resolved (both requests
\* answered): both results are stored, and the finally block
DriverDataArrives(request) ==
    /\ BagIn(request, raceRequests) /\ request.kind = "data"
    /\ raceAnalysis' =
           [driverDataLoaded(raceAnalysis,
                             DriverLapsAt(request.selectedDriver),
                             PaceAnalysisAt(request.selectedDriver))
               EXCEPT !.loading = FALSE]
    /\ raceRequests' = raceRequests (-) SetToBag({request})
    /\ UNCHANGED <<page, raceVars, telemetryVars, comparisonVars, pageVars, pc,
                   dashboardVars>>

\* loadDriverData after its await, Promise.all rejected (getDriverLaps or
\* getPaceAnalysis failed): the catch and the finally block
DriverDataFails(request, detail) ==
    /\ BagIn(request, raceRequests) /\ request.kind = "data"
    /\ raceAnalysis' = [driverDataFailed(raceAnalysis, detail) EXCEPT !.loading = FALSE]
    /\ raceRequests' = raceRequests (-) SetToBag({request})
    /\ UNCHANGED <<page, raceVars, telemetryVars, comparisonVars, pageVars, pc,
                   dashboardVars>>

---------------------------------------------------------------------------
(* Specifications *)

\* Stint reconstruction over every lap sequence and pit-stop list
InitStints ==
    /\ page = "RaceAnalysis"
    /\ DashboardIdle
    /\ RaceAnalysisIdle
    /\ driverLaps \in StintInputs
    /\ lapFilter = "all"
    /\ stints = <<>>
    /\ filteredChartData = <<>>
    /\ missingLapNumbers = <<>>
    /\ TelemetryIdle
    /\ ComparisonIdle
    /\ PageIdle
    /\ pc = "fetched"

NextStints == RenderRace

SpecStints == InitStints /\ [][NextStints]_vars

\* The lap filter over every lap sequence and filter mode
InitFilter ==
    /\ page = "RaceAnalysis"
    /\ DashboardIdle
    /\ RaceAnalysisIdle
    /\ driverLaps \in FilterInputs
    /\ lapFilter = "all"
    /\ stints = <<>>
    /\ filteredChartData = <<>>
    /\ missingLapNumbers = <<>>
    /\ TelemetryIdle
    /\ ComparisonIdle
    /\ PageIdle
    /\ pc = "fetched"

NextFilter ==
    \/ RenderRace
    \/ \E f \in LapFilters : SetLapFilter(f)

SpecFilter == InitFilter /\ [][NextFilter]_vars

\* The telemetry chart series over every pair of telemetry laps
InitTelemetry ==
    /\ page = "TelemetryAnalysis"
    /\ DashboardIdle
    /\ RaceAnalysisIdle
    /\ telemetryData \in TelemetryInputs
    /\ speedData = <<>>
    /\ gearData = <<>>
    /\ rpmData = <<>>
    /\ RaceIdle
    /\ ComparisonIdle
    /\ PageIdle
    /\ pc = "fetched"

NextTelemetry == RenderTelemetry

SpecTelemetry == InitTelemetry /\ [][NextTelemetry]_vars

\* DriverComparison over every pair of lap sets of the two drivers
InitComparison ==
    /\ page = "DriverComparison"
    /\ DashboardIdle
    /\ RaceAnalysisIdle
    /\ lapTimes \in LapTimesInputs
    /\ DriverComparisonMounted
    /\ RaceIdle
    /\ TelemetryIdle
    /\ PageIdle
    /\ pc = "rendered"

NextComparison ==
    \/ \E d \in DRIVERS : SetDriver1(d)
    \/ \E d \in DRIVERS : SetDriver2(d)
    \/ LoadComparison
    \/ \E request \in comparisonRequests : ComparisonArrives(request)
    \/ \E request \in comparisonRequests : ComparisonFails(request)

SpecComparison == InitComparison /\ [][NextComparison]_vars

\* TelemetryAnalysis from its mount: the first render's effects have run,
\* the races of 2025 are being fetched
InitLifecycle ==
    /\ page = "TelemetryAnalysis"
    /\ DashboardIdle
    /\ RaceAnalysisIdle
    /\ TelemetryAnalysisMounted
    /\ requests = SetToBag({RacesRequest([year |-> 2025])})
    /\ TelemetryIdle
    /\ RaceIdle
    /\ ComparisonIdle
    /\ pc = "rendered"

NextLifecycle ==
    \/ \E y \in Years : SetYear(y)
    \/ \E round \in 0..1 : SetSelectedRace(round)
    \/ \E i \in 1..2 : TelemetrySetDriver1(i)
    \/ \E i \in 1..2 : TelemetrySetDriver2(i)
    \/ \E request \in BagToSet(requests) : RacesArrive(request)
    \/ \E request \in BagToSet(requests) : RacesFail(request)
    \/ \E request \in BagToSet(requests) : TelemetryArrives(request)
    \/ \E request \in BagToSet(requests) : TelemetryFails(request)
    \/ \E request \in BagToSet(requests) : DriversArrive(request)
    \/ \E request \in BagToSet(requests) : DriversFail(request)
    \/ \E request \in BagToSet(requests) : LayoutArrives(request)
    \/ \E request \in BagToSet(requests) : LayoutFails(request)

SpecLifecycle == InitLifecycle /\ [][NextLifecycle]_vars

\* Dashboard over every pair of seasons: year selections and responses in
\* every order
InitDashboard ==
    /\ page = "Dashboard"
    /\ calendar \in [Years -> Seasons]
    /\ DashboardMounted
    /\ RaceAnalysisIdle
    /\ RaceIdle
    /\ TelemetryIdle
    /\ ComparisonIdle
    /\ PageIdle
    /\ pc = "rendered"

NextDashboard ==
    \/ \E y \in Years : SetSelectedYear(y)
    \/ \E y \in Years : DashboardRacesArrive(y)
    \/ \E y \in Years : DashboardRacesFail(y)

SpecDashboard == InitDashboard /\ [][NextDashboard]_vars

\* RaceAnalysis: the loads of the driver list and of a driver's data
InitRaceLoad ==
    /\ page = "RaceAnalysis"
    /\ RaceAnalysisMounted
    /\ DashboardIdle
    /\ RaceIdle
    /\ TelemetryIdle
    /\ ComparisonIdle
    /\ PageIdle
    /\ pc = "rendered"

NextRaceLoad ==
    \/ \E request \in BagToSet(raceRequests) :
           \E drivers \in DriverLists : RaceDriversArrive(request, drivers)
    \/ \E request \in BagToSet(raceRequests) : RaceDriversFail(request)
    \/ \E d \in RaceDrivers : SetSelectedDriver(d)
    \/ LoadData
    \/ \E request \in BagToSet(raceRequests) : DriverDataArrives(request)
    \/ \E request \in BagToSet(raceRequests) :
           \E detail \in ErrorDetails : DriverDataFails(request, detail)

SpecRaceLoad == InitRaceLoad /\ [][NextRaceLoad]_vars

\* The four pages with their loads, one of them on screen; every request
\* that stays pending is answered in the end (it resolves or it rejects)
Pages == {"Dashboard", "RaceAnalysis", "DriverComparison", "TelemetryAnalysis"}

InitLoads ==
    /\ page \in Pages
    /\ pc = "rendered"
    /\ RaceIdle
    /\ TelemetryIdle
    /\ IF page = "Dashboard"
       THEN calendar \in [Years -> {SeasonOf(<<>>), SeasonOf(<<20251130, 20251207>>)}]
            /\ DashboardMounted
       ELSE DashboardIdle
    /\ IF page = "RaceAnalysis" THEN RaceAnalysisMounted ELSE RaceAnalysisIdle
    /\ IF page = "DriverComparison"
       THEN lapTimes \in [DRIVERS -> {<<>>, <<90>>, <<91>>}] /\ DriverComparisonMounted
       ELSE ComparisonIdle
    /\ TelemetryAnalysisMounted
    /\ requests = IF page = "TelemetryAnalysis"
                  THEN SetToBag({RacesRequest([year |-> 2025])})
                  ELSE EmptyBag

NextLoads ==
    \/ page = "Dashboard" /\ NextDashboard
    \/ page = "RaceAnalysis" /\ NextRaceLoad
    \/ page = "DriverComparison" /\ NextComparison
    \/ page = "TelemetryAnalysis" /\ NextLifecycle

DashboardRacesAnswered ==
    \E y \in Years : DashboardRacesArrive(y) \/ DashboardRacesFail(y)

RaceDriversAnswered ==
    \E request \in BagToSet(raceRequests) :
        \/ \E drivers \in DriverLists : RaceDriversArrive(request, drivers)
        \/ RaceDriversFail(request)

DriverDataAnswered ==
    \E request \in BagToSet(raceRequests) :
        \/ DriverDataArrives(request)
        \/ \E detail \in ErrorDetails : DriverDataFails(request, detail)

ComparisonAnswered ==
    \E request \in comparisonRequests :
        ComparisonArrives(request) \/ ComparisonFails(request)

TelemetryAnswered ==
    \E request \in BagToSet(requests) :
        TelemetryArrives(request) \/ TelemetryFails(request)

DriversAnswered ==
    \E request \in BagToSet(requests) :
        DriversArrive(request) \/ DriversFail(request)

\* A response to one of the loads arrives
LoadAnswered ==
    \/ DashboardRacesAnswered
    \/ RaceDriversAnswered
    \/ DriverDataAnswered
    \/ ComparisonAnswered
    \/ TelemetryAnswered
    \/ DriversAnswered

\* While a load waits for its response, a response arrives in the end
ResponsesArrive == WF_vars(LoadAnswered)

SpecLoads == InitLoads /\ [][NextLoads]_vars /\ ResponsesArrive

---------------------------------------------------------------------------
(* Vocabulary of the properties, stated on the fetched data itself *)

Rendered == pc = "rendered"

ObservedLaps == {driverLaps.laps[i].lap_number : i \in 1..Len(driverLaps.laps)}

PitStopLaps == {driverLaps.pit_stops[i].lap : i \in 1..Len(driverLaps.pit_stops)}

HasLaps == driverLaps.laps # <<>>

HasPitStops == driverLaps.pit_stops # <<>>

\* The pit-stop list is sorted by lap and its laps are distinct
PitStopsSortedDistinct ==
    \A i \in 1..(Len(driverLaps.pit_stops) - 1) :
        driverLaps.pit_stops[i].lap < driverLaps.pit_stops[i + 1].lap

\* The lap numbers covered by the returned stints
StintRangeUnion == UNION {stints[i].startLap..stints[i].endLap : i \in 1..Len(stints)}

\* The lap record as the chart holds it
ChartLap(l) == [lap |-> l.lap_number, time |-> l.time, compound |-> l.compound]

---------------------------------------------------------------------------
(* Stint reconstruction *)

\* C1: for a non-empty lap sequence and no pit stops there is exactly one
\* stint; it spans [min lap number, max lap number], holds all the laps, and
\* its compound is the first lap record's, or MEDIUM when that is absent.
C1_SingleStint ==
    (Rendered /\ HasLaps /\ ~HasPitStops) =>
        /\ Len(stints) = 1
        /\ \A n \in ObservedLaps : stints[1].startLap <= n /\ n <= stints[1].endLap
        /\ stints[1].startLap \in ObservedLaps
        /\ stints[1].endLap \in ObservedLaps
        /\ Len(stints[1].data) = Len(driverLaps.laps)
        /\ \A i \in 1..Len(driverLaps.laps) :
               stints[1].data[i] = ChartLap(driverLaps.laps[i])
        /\ stints[1].compound =
               IF driverLaps.laps[1].compound = NoCompound THEN "MEDIUM"
               ELSE driverLaps.laps[1].compound

\* C1 witness: a rendered pit-stop-free lap set with a gap in its lap
\* numbers and no compound on its first lap
C1_Witness ==
    /\ Rendered /\ ~HasPitStops
    /\ Len(driverLaps.laps) = 2
    /\ driverLaps.laps[1].lap_number = 2
    /\ driverLaps.laps[2].lap_number = 4
    /\ driverLaps.laps[1].compound = NoCompound
    /\ stints[1].compound = "MEDIUM"

\* C2: whatever the pit-stop list (sorted or not, duplicates or not), the
\* stints are ascending and disjoint: each ends before the next starts.
C2_AscendingDisjoint ==
    Rendered =>
        \A i \in 1..(Len(stints) - 1) : stints[i].endLap < stints[i + 1].startLap

\* C2 witness: an unsorted pit-stop list that yields two stints
C2_Witness ==
    /\ Rendered
    /\ Len(driverLaps.pit_stops) = 2
    /\ driverLaps.pit_stops[1].lap > driverLaps.pit_stops[2].lap
    /\ Len(stints) = 2

\* C2 witness of the duplicate case, kept apart: two pit stops on one lap
C2_WitnessDuplicate ==
    /\ Rendered
    /\ Len(driverLaps.pit_stops) = 2
    /\ driverLaps.pit_stops[1].lap = driverLaps.pit_stops[2].lap
    /\ Len(stints) = 2

\* C3 as stated: for sorted distinct pit stops the stints are contiguous and
\* their ranges cover the whole of [min lap number, max lap number] (a
\* skipped empty stint holds no lap, so it takes nothing out of the union).
C3_AsStated ==
    (Rendered /\ HasLaps /\ PitStopsSortedDistinct) =>
        /\ StintRangeUnion = SetMin(ObservedLaps)..SetMax(ObservedLaps)
        /\ \A i \in 1..(Len(stints) - 1) : stints[i].endLap + 1 = stints[i + 1].startLap

\* C3 amended: for sorted distinct pit stops the union of the stint ranges
\* is the range from min(min lap number, first pit lap) to max(max lap
\* number, last pit lap) without the pit-stop laps -- [min lap number, max
\* lap number] without the pit-stop laps when every pit stop lies inside
\* the observed range -- and only pit-stop laps lie between two
\* consecutive stints.
C3_CoverExceptPitLaps ==
    (Rendered /\ HasLaps /\ PitStopsSortedDistinct) =>
        /\ StintRangeUnion =
              (SetMin(ObservedLaps \cup PitStopLaps)..SetMax(ObservedLaps \cup PitStopLaps))
                  \ PitStopLaps
        /\ (PitStopLaps \subseteq SetMin(ObservedLaps)..SetMax(ObservedLaps)) =>
              StintRangeUnion =
                  (SetMin(ObservedLaps)..SetMax(ObservedLaps)) \ PitStopLaps
        /\ \A i \in 1..(Len(stints) - 1) :
              \A n \in (stints[i].endLap + 1)..(stints[i + 1].startLap - 1) :
                  n \in PitStopLaps

\* C3 witness: two sorted distinct pit stops inside the observed range,
\* three stints around them
C3_Witness ==
    /\ Rendered /\ HasLaps /\ PitStopsSortedDistinct
    /\ Len(driverLaps.pit_stops) = 2
    /\ PitStopLaps \subseteq SetMin(ObservedLaps)..SetMax(ObservedLaps)
    /\ Len(stints) = 2
    /\ stints[1].endLap + 2 = stints[2].startLap

\* C4 as stated: two consecutive stints are separated by exactly one pit
\* lap p: the first ends at p - 1 and the next starts at p + 1.
C4_AsStated ==
    Rendered =>
        \A i \in 1..(Len(stints) - 1) :
            \E p \in PitStopLaps :
                stints[i].endLap = p - 1 /\ stints[i + 1].startLap = p + 1

\* C4 amended: two consecutive stints are separated by a run of pit laps:
\* the first ends at p - 1 and the next starts at q + 1 for pit-stop laps
\* p <= q, every lap from p to q being a pit-stop lap (p = q unless pit
\* stops fall on adjacent laps).
C4_SeparatedByPitLaps ==
    Rendered =>
        \A i \in 1..(Len(stints) - 1) :
            \E p, q \in PitStopLaps :
                /\ p <= q
                /\ stints[i].endLap = p - 1
                /\ stints[i + 1].startLap = q + 1
                /\ \A n \in p..q : n \in PitStopLaps
                /\ (\A a, b \in PitStopLaps : b # a + 1) => p = q

\* C4 witness: pit stops on adjacent laps with a stint on either side
C4_Witness ==
    /\ Rendered
    /\ Len(stints) = 2
    /\ stints[1].endLap + 3 = stints[2].startLap
    /\ PitStopLaps = {stints[1].endLap + 1, stints[1].endLap + 2}

\* The scenario of C5: laps 1 (SOFT), 2 (SOFT), 3 (MEDIUM) and one pit stop
\* at lap 3 with compoundBefore SOFT
C5_Scenario ==
    /\ Len(driverLaps.laps) = 3
    /\ \A i \in 1..3 : driverLaps.laps[i].lap_number = i
    /\ driverLaps.laps[1].compound = "SOFT"
    /\ driverLaps.laps[2].compound = "SOFT"
    /\ driverLaps.laps[3].compound = "MEDIUM"
    /\ driverLaps.pit_stops = <<[lap |-> 3, compound_before |-> "SOFT"]>>

\* C5 as stated: the scenario yields {SOFT, 1, 2} followed by {MEDIUM, 3, 3}.
C5_AsStated ==
    (Rendered /\ C5_Scenario) =>
        /\ Len(stints) = 2
        /\ stints[1].compound = "SOFT" /\ stints[1].startLap = 1 /\ stints[1].endLap = 2
        /\ stints[2].compound = "MEDIUM" /\ stints[2].startLap = 3 /\ stints[2].endLap = 3

\* C5 amended: the scenario yields the single stint {SOFT, 1, 2} holding
\* laps 1 and 2; lap 3, the pit lap, is in no stint (the next stint would
\* start at lap 4, past the last lap).
C5_ScenarioStints ==
    (Rendered /\ C5_Scenario) =>
        /\ Len(stints) = 1
        /\ stints[1].compound = "SOFT" /\ stints[1].startLap = 1 /\ stints[1].endLap = 2
        /\ stints[1].data = <<ChartLap(driverLaps.laps[1]), ChartLap(driverLaps.laps[2])>>

\* C5 witness: the scenario, rendered
C5_Witness == Rendered /\ C5_Scenario /\ stints # <<>>

---------------------------------------------------------------------------
(* Lap filter *)

\* The times of the fetched laps that have one
InputTimes ==
    {driverLaps.laps[i].time : i \in 1..Len(driverLaps.laps)} \ {Null}

\* C6: with filter 'all' the filtered list is the input list: same laps,
\* same order, laps without a time included.
C6_AllIsIdentity ==
    (Rendered /\ lapFilter = "all") =>
        /\ Len(filteredChartData) = Len(driverLaps.laps)
        /\ \A i \in 1..Len(driverLaps.laps) :
               filteredChartData[i] = ChartLap(driverLaps.laps[i])

\* C6 witness: 'all' rendered over laps of which one has no time
C6_Witness ==
    /\ Rendered /\ lapFilter = "all"
    /\ Len(driverLaps.laps) = 3
    /\ driverLaps.laps[2].time = Null
    /\ driverLaps.laps[3].time = 104
    /\ Len(filteredChartData) = 3

\* C7: with filter 'fastest' no lap of the output has a time above 1.03
\* times the smallest time of the input.
C7_FastestWithinThreePercent ==
    (Rendered /\ lapFilter = "fastest") =>
        \A i \in 1..Len(filteredChartData) :
            filteredChartData[i].time # Null =>
                100 * filteredChartData[i].time <= 103 * SetMin(InputTimes)

\* C7 witness: 'fastest' over times 100, 103 and 104 keeps the first two
\* and drops the third
C7_Witness ==
    /\ Rendered /\ lapFilter = "fastest"
    /\ InputTimes = {100, 103, 104}
    /\ {filteredChartData[i].time : i \in 1..Len(filteredChartData)} = {100, 103}

\* C8 as stated: with 'fastest' or 'average' no lap without a time is in
\* the output; with 'all' every lap without a time is retained.
C8_AsStated ==
    Rendered =>
        /\ lapFilter \in {"fastest", "average"} =>
               \A i \in 1..Len(filteredChartData) : filteredChartData[i].time # Null
        /\ lapFilter = "all" =>
               \A i \in 1..Len(driverLaps.laps) :
                   driverLaps.laps[i].time = Null =>
                       \E j \in 1..Len(filteredChartData) :
                           filteredChartData[j] = ChartLap(driverLaps.laps[i])

---------------------------------------------------------------------------
(* Telemetry alignment *)

TelemetryLoaded == Rendered /\ telemetryData.loaded

Len1 == Len(telemetryData.lap1.Distance)
Len2 == Len(telemetryData.lap2.Distance)
MinLen == IF Len1 <= Len2 THEN Len1 ELSE Len2

\* C9: the speed series has length min(len(series1), len(series2)) and
\* speedDelta[i] = series1.speed[i] - series2.speed[i] at every index.
C9_SpeedAligned ==
    TelemetryLoaded =>
        /\ Len(speedData) = MinLen
        /\ \A k \in 1..MinLen :
               speedData[k].speedDelta =
                   telemetryData.lap1.Speed[k] - telemetryData.lap2.Speed[k]

\* C9 witness: series of different lengths and a non-zero delta
C9_Witness ==
    /\ TelemetryLoaded
    /\ Len1 = 2 /\ Len2 = 1
    /\ Len(speedData) = 1
    /\ speedData[1].speedDelta = 50

\* C10 as stated: the gear and RPM series have length min(len(series1),
\* len(series2)) too, and no row lacks a value for either driver.
C10_AsStated ==
    TelemetryLoaded =>
        /\ Len(gearData) = MinLen
        /\ Len(rpmData) = MinLen
        /\ \A k \in 1..Len(gearData) :
               gearData[k].gear1 # Null /\ gearData[k].gear2 # Null
        /\ \A k \in 1..Len(rpmData) :
               rpmData[k].rpm1 # Null /\ rpmData[k].rpm2 # Null

---------------------------------------------------------------------------
(* Stint compounds *)

MaxPitLap == SetMax(PitStopLaps)

\* The stints closed by a pit stop, and the one after the last pit stop
IsFinalStint(i) == stints[i].startLap = MaxPitLap + 1
ClosedByPitStop(i) == ~IsFinalStint(i) /\ stints[i].endLap + 1 \in PitStopLaps

\* The fetched lap records with a lap number in [a, b], in response order
LapsWithin(a, b) ==
    SelectSeq(driverLaps.laps, LAMBDA l : a <= l.lap_number /\ l.lap_number <= b)

\* The first compound present among the lap records in [a, b]
FirstCompoundWithin(a, b) ==
    LET hits == SelectSeq(LapsWithin(a, b), LAMBDA l : l.compound # NoCompound)
    IN IF hits = <<>> THEN NoCompound ELSE hits[1].compound

\* The pit stops recorded on the given lap
PitStopsOn(lap) ==
    {driverLaps.pit_stops[i] : i \in {j \in 1..Len(driverLaps.pit_stops) :
                                        driverLaps.pit_stops[j].lap = lap}}

\* The lap of the pit stop that precedes lap p in ascending lap order
HasPitStopBefore(p) == \E q \in PitStopLaps : q < p
PitLapBefore(p) == SetMax({q \in PitStopLaps : q < p})

\* The chain of C15 for a stint [a, b], with prev the compound_before of
\* the previous pit stop (NoCompound when there is none)
ChainCompound(a, b, prev) ==
    IF FirstCompoundWithin(a, b) # NoCompound THEN FirstCompoundWithin(a, b)
    ELSE IF prev # NoCompound THEN prev
    ELSE IF driverLaps.laps[1].compound # NoCompound
         THEN driverLaps.laps[1].compound
    ELSE "MEDIUM"

---------------------------------------------------------------------------
(* Stint bounds *)

LastStint == stints[Len(stints)]

\* The [startLap, endLap] pairs of a stints array, in order
BoundsOf(ss) == [i \in 1..Len(ss) |-> <<ss[i].startLap, ss[i].endLap>>]

\* The array without its i-th element
RemoveAt(arr, i) == SubSeq(arr, 1, i - 1) \o SubSeq(arr, i + 1, Len(arr))

\* C17: every emitted stint has startLap <= endLap; two pit stops on
\* adjacent laps p and p + 1, or on the same lap, produce no stint between
\* them: no stint starts at p + 1, and there are never more stints than
\* distinct pit laps plus one.
C17_NoEmptyStint ==
    Rendered =>
        /\ \A i \in 1..Len(stints) : stints[i].startLap <= stints[i].endLap
        /\ \A p \in PitStopLaps :
               p + 1 \in PitStopLaps =>
                   \A i \in 1..Len(stints) : stints[i].startLap # p + 1
        /\ HasPitStops => Len(stints) <= Cardinality(PitStopLaps) + 1

\* C17 witness: laps 1..4 with pit stops on the adjacent laps 2 and 3 give
\* the stints [1, 1] and [4, 4] and nothing between
C17_Witness ==
    /\ Rendered
    /\ ObservedLaps = 1..4
    /\ PitStopLaps = {2, 3}
    /\ BoundsOf(stints) = <<<<1, 1>>, <<4, 4>>>>

\* C17 witness: two pit stops on lap 2 give the stints [1, 1] and [3, 4]
C17_WitnessSameLap ==
    /\ Rendered
    /\ ObservedLaps = 1..4
    /\ Len(driverLaps.pit_stops) = 2
    /\ PitStopLaps = {2}
    /\ BoundsOf(stints) = <<<<1, 1>>, <<3, 4>>>>

\* C18 as stated: for a non-empty lap sequence and a non-empty pit-stop
\* list a final stint is always emitted: the last stint starts at the
\* largest pit lap + 1 and ends at the largest observed lap.
C18_AsStated ==
    (Rendered /\ HasLaps /\ HasPitStops) =>
        /\ stints # <<>>
        /\ LastStint.startLap = MaxPitLap + 1
        /\ LastStint.endLap = SetMax(ObservedLaps)

\* C18: the final stint is emitted exactly when a lap is observed after the
\* largest pit lap; then the last stint starts at the largest pit lap + 1
\* and ends at the largest observed lap, and otherwise no stint starts
\* after the largest pit lap.
C18_FinalStintWhenLapsAfter ==
    (Rendered /\ HasLaps /\ HasPitStops) =>
        IF \E n \in ObservedLaps : n > MaxPitLap
        THEN /\ stints # <<>>
             /\ LastStint.startLap = MaxPitLap + 1
             /\ LastStint.endLap = SetMax(ObservedLaps)
        ELSE \A i \in 1..Len(stints) : stints[i].startLap <= MaxPitLap

\* C18 witness: laps 1, 2 and 4 with pit stops on laps 2 and 1 (in this
\* order); the final stint is [3, 4]
C18_Witness ==
    /\ Rendered
    /\ ObservedLaps = {1, 2, 4}
    /\ Len(driverLaps.pit_stops) = 2
    /\ driverLaps.pit_stops[1].lap = 2
    /\ driverLaps.pit_stops[2].lap = 1
    /\ BoundsOf(stints) = <<<<3, 4>>>>

\* C18 witness: the pit stop is on the last observed lap and no final stint
\* is emitted
C18_WitnessNoFinalStint ==
    /\ Rendered
    /\ ObservedLaps = 1..3
    /\ PitStopLaps = {3}
    /\ BoundsOf(stints) = <<<<1, 2>>>>

\* A pit stop is malformed when its lap is negative or another pit stop is
\* recorded on the same lap
Malformed(i) ==
    \/ driverLaps.pit_stops[i].lap < 0
    \/ \E j \in 1..Len(driverLaps.pit_stops) :
           j # i /\ driverLaps.pit_stops[j].lap = driverLaps.pit_stops[i].lap

\* C19 as stated: a malformed pit stop is skipped: the stint bounds are the
\* ones computed from the pit-stop list without that entry.
C19_AsStated ==
    (Rendered /\ HasLaps) =>
        \A i \in 1..Len(driverLaps.pit_stops) :
            Malformed(i) =>
                BoundsOf(stints) =
                    BoundsOf(stintsOf([driverLaps EXCEPT
                                 !.pit_stops = RemoveAt(driverLaps.pit_stops, i)]))

\* The permutations of 1..n
PermutationsOf(n) ==
    {f \in [1..n -> 1..n] : \A i, j \in 1..n : f[i] = f[j] => i = j}

\* C20 as stated: every permutation of the pit-stop list yields the same
\* stints: bounds, laps and compounds.
C20_AsStated ==
    (Rendered /\ HasLaps) =>
        \A f \in PermutationsOf(Len(driverLaps.pit_stops)) :
            stintsOf([driverLaps EXCEPT
                        !.pit_stops = [i \in 1..Len(driverLaps.pit_stops) |->
                                          driverLaps.pit_stops[f[i]]]])
                = stints

---------------------------------------------------------------------------
(* Driver comparison *)

ComparisonShown == driverComparison.comparison.loaded

\* The laps the shown comparison was computed from
ShownLaps1 == lapTimes[driverComparison.comparison.driver1]
ShownLaps2 == lapTimes[driverComparison.comparison.driver2]
ShownPaired == DOMAIN ShownLaps1 \cap DOMAIN ShownLaps2

\* The sum of a driver's times over the paired laps, lap by lap
PairedSum(laps) ==
    LET RECURSIVE upTo(_)
        upTo(n) == IF n = 0 THEN 0
                   ELSE upTo(n - 1) + (IF n \in ShownPaired THEN laps[n] ELSE 0)
    IN upTo(MaxPairedLaps)

\* p = -q for two exact quotients
IsNegationOf(p, q) == p.num * q.den = -(q.num * p.den)

\* C11: for two lap sets with at least one paired lap, avgGap is the mean
\* of A's times minus the mean of B's times over the laps paired by lap
\* number, and it is antisymmetric:
\* compareDrivers(A, B).avgGap = -compareDrivers(B, A).avgGap.
C11_Antisymmetric ==
    ComparisonShown =>
        LET shown == driverComparison.comparison
            swapped == compareDrivers(shown.driver2, ShownLaps2,
                                      shown.driver1, ShownLaps1)
        IN /\ ShownPaired # {}
           /\ shown.avg_gap.den > 0
           /\ shown.avg_gap.num * Cardinality(ShownPaired) =
                  (PairedSum(ShownLaps1) - PairedSum(ShownLaps2)) * shown.avg_gap.den
           /\ swapped.ok
           /\ swapped.data.avg_gap.den > 0
           /\ IsNegationOf(shown.avg_gap, swapped.data.avg_gap)

\* C11 witness: VER laps 1, 2 in 90, 91 against HAM laps 1, 2 in 92, 90 has
\* been compared: avgGap = -1/2, one faster lap each
C11_Witness ==
    /\ ComparisonShown
    /\ lapTimes["VER"] = <<90, 91>>
    /\ lapTimes["HAM"] = <<92, 90>>
    /\ driverComparison.comparison.driver1 = "VER"
    /\ driverComparison.comparison.driver2 = "HAM"
    /\ driverComparison.comparison.avg_gap = [num |-> -1, den |-> 2]
    /\ driverComparison.comparison.driver1_faster_laps = 1
    /\ driverComparison.comparison.driver2_faster_laps = 1

\* C11 witness: the two drivers share lap 2 only, out of three laps driven
C11_WitnessUnpaired ==
    /\ ComparisonShown
    /\ driverComparison.comparison.driver1 = "VER"
    /\ driverComparison.comparison.driver2 = "HAM"
    /\ DOMAIN lapTimes["VER"] = {1, 2}
    /\ DOMAIN lapTimes["HAM"] = {2}
    /\ lapTimes["VER"][2] = 92
    /\ lapTimes["HAM"][2] = 90
    /\ driverComparison.comparison.avg_gap = [num |-> 2, den |-> 1]

\* C14 as stated: producing and displaying a comparison never divides by
\* zero: a request for two drivers without a comparable lap ends in the
\* NoComparableLaps condition and stores no comparison, and the driver1
\* dominance percentage d1 / (d1 + d2) is computed only when d1 + d2 > 0.
C14_AsStated ==
    /\ ComparisonShown => ShownPaired # {}
    /\ battleStats.shown =>
           /\ driverComparison.comparison.driver1_faster_laps
                + driverComparison.comparison.driver2_faster_laps > 0
           /\ ~battleStats.dominance.nan

---------------------------------------------------------------------------
(* TelemetryAnalysis: the request lifecycle *)

\* The pending requests of a kind
Pending(kind) == {q \in BagToSet(requests) : q.kind = kind}

\* The request was started by this step
Started(q) == CopiesIn(q, requests') > CopiesIn(q, requests)

\* A response to a request of this kind was applied by this step
Applied(kind) ==
    \E q \in Pending(kind) : CopiesIn(q, requests') < CopiesIn(q, requests)

\* C12: every change of the selected year leaves telemetryData and
\* circuitLayout null, availableDrivers empty and selectedRace null by the
\* time the races of the new year are requested, and selectedRace is null
\* after the races response, success or failure, has been applied.
C12_YearChangeClears ==
    [][/\ year' # year =>
            /\ telemetryData' = NoTelemetry
            /\ circuitLayout' = NoLayout
            /\ availableDrivers' = <<>>
            /\ selectedRace' = Null
            /\ Started(RacesRequest([year |-> year']))
       /\ Applied("races") => selectedRace' = Null]_vars

\* C12 witness: the year was changed to 2024 with round 1 of 2025 selected:
\* everything is cleared and the races of 2024 are pending, next to the
\* telemetry request the same change started for the old round
C12_Witness ==
    /\ year = 2024
    /\ selectedRace = Null
    /\ telemetryData = NoTelemetry
    /\ circuitLayout = NoLayout
    /\ availableDrivers = <<>>
    /\ races = RacesOf(2025)
    /\ \E q \in Pending("races") : q.year = 2024
    /\ \E q \in Pending("telemetry") : q.year = 2024 /\ q.race = 1

\* C12 witness: the races response of 2024 has been applied after that
\* change of year (the layout request it started is still pending) and no
\* race is selected
C12_WitnessAfterResponse ==
    /\ year = 2024
    /\ selectedRace = Null
    /\ Pending("races") = {}
    /\ races = RacesOf(2024)
    /\ Pending("layout") # {}

\* C13 as stated: telemetry is only requested when the driver list is not
\* being loaded: no telemetry request for a race is started while the
\* driver-list request for that race is still pending.
C13_AsStated ==
    [][\A q \in Pending("telemetry")' :
           Started(q) =>
               ~\E p \in Pending("drivers")' : p.year = q.year /\ p.race = q.race]_vars

---------------------------------------------------------------------------
(* Lap filter: the band around the average *)

\* The fetched laps that have a time
TimedLapIndexes == {i \in 1..Len(driverLaps.laps) : driverLaps.laps[i].time # Null}

\* The sum of the times of the first n fetched laps that have one
TimeSumUpTo(n) ==
    LET RECURSIVE upTo(_)
        upTo(k) == IF k = 0 THEN 0
                   ELSE upTo(k - 1) + (IF k \in TimedLapIndexes
                                       THEN driverLaps.laps[k].time ELSE 0)
    IN upTo(n)

TimeSum == TimeSumUpTo(Len(driverLaps.laps))

\* The lap numbers of the filtered chart laps
FilteredLapNumbers == {filteredChartData[i].lap : i \in 1..Len(filteredChartData)}

\* |time - mean| <= 0.02 * mean with mean = TimeSum / n, stated without
\* division: 50 * |n * time - TimeSum| <= TimeSum
WithinTwoPercentOfMean(time) ==
    LET n == Cardinality(TimedLapIndexes)
        d == n * time - TimeSum
    IN 50 * (IF d < 0 THEN -d ELSE d) <= TimeSum

---------------------------------------------------------------------------
(* Lap normalisation *)

\* The chart laps of the rendered state
ChartData == chartDataOf(driverLaps)

\* The fetched lap numbers ascend
AscendingLaps ==
    \A i \in 1..(Len(driverLaps.laps) - 1) :
        driverLaps.laps[i].lap_number < driverLaps.laps[i + 1].lap_number

\* C22: the chart lap list has one entry per fetched lap record, in the
\* same order and with the lap number unchanged; for an ascending lap
\* sequence the missing lap numbers are exactly the integers of
\* [min lap number, max lap number] that are no record's lap number, each
\* reported once.
C22_GapsPreserved ==
    Rendered =>
        /\ Len(ChartData) = Len(driverLaps.laps)
        /\ \A i \in 1..Len(driverLaps.laps) :
               /\ ChartData[i].lap = driverLaps.laps[i].lap_number
               /\ ChartData[i].time = driverLaps.laps[i].time
               /\ ChartData[i].compound = driverLaps.laps[i].compound
        /\ (HasLaps /\ AscendingLaps) =>
               /\ {missingLapNumbers[k] : k \in 1..Len(missingLapNumbers)} =
                      (SetMin(ObservedLaps)..SetMax(ObservedLaps)) \ ObservedLaps
               /\ \A j, k \in 1..Len(missingLapNumbers) :
                      missingLapNumbers[j] = missingLapNumbers[k] => j = k
        /\ ~HasLaps => missingLapNumbers = <<>>

\* C22 witness: the laps 1 and 4 are fetched; the chart keeps the numbers 1
\* and 4 and the laps 2 and 3 are reported missing
C22_Witness ==
    /\ Rendered
    /\ Len(driverLaps.laps) = 2
    /\ driverLaps.laps[1].lap_number = 1
    /\ driverLaps.laps[2].lap_number = 4
    /\ filteredChartData[2].lap = 4
    /\ missingLapNumbers = <<2, 3>>

---------------------------------------------------------------------------
(* Stint laps *)

\* The stints whose data holds the lap record with this lap number
StintsHolding(n) ==
    {i \in 1..Len(stints) :
        \E k \in 1..Len(stints[i].data) : stints[i].data[k].lap = n}

\* C23: with pit stops, every lap record is in the data of at most one
\* stint, every lap record whose lap number is not a pit-stop lap is in the
\* data of exactly one stint, and every lap of a stint's data has its lap
\* number within the stint's [startLap, endLap].
C23_LapsInOneStint ==
    (Rendered /\ HasLaps /\ HasPitStops) =>
        /\ \A n \in ObservedLaps : Cardinality(StintsHolding(n)) <= 1
        /\ \A n \in ObservedLaps \ PitStopLaps : Cardinality(StintsHolding(n)) = 1
        /\ \A i \in 1..Len(stints) :
               /\ \A k \in 1..Len(stints[i].data) :
                      /\ stints[i].startLap <= stints[i].data[k].lap
                      /\ stints[i].data[k].lap <= stints[i].endLap
                      /\ \E j \in 1..Len(driverLaps.laps) :
                             stints[i].data[k] = ChartLap(driverLaps.laps[j])
               /\ \A j, k \in 1..Len(stints[i].data) :
                      stints[i].data[j].lap = stints[i].data[k].lap => j = k

\* C23 witness: laps 1..4 with a pit stop on lap 2: lap 1 is in the first
\* stint, laps 3 and 4 in the second, the pit lap 2 in none
C23_Witness ==
    /\ Rendered
    /\ ObservedLaps = 1..4
    /\ PitStopLaps = {2}
    /\ Len(stints) = 2
    /\ StintsHolding(1) = {1}
    /\ StintsHolding(2) = {}
    /\ StintsHolding(3) = {2}
    /\ StintsHolding(4) = {2}

\* C24 as stated: every emitted stint lies inside the observed lap range:
\* min lap number <= startLap and endLap <= max lap number, whatever the
\* pit-stop list, pit stops below the first or above the last observed lap
\* included.
C24_AsStated ==
    (Rendered /\ HasLaps) =>
        \A i \in 1..Len(stints) :
            /\ SetMin(ObservedLaps) <= stints[i].startLap
            /\ stints[i].endLap <= SetMax(ObservedLaps)

\* ---------------------------------------------------------------------
\* C25  DriverComparison: whenever a comparison result is displayed, the
\* two driver codes that label it (the winner banner, the gap captions and
\* the faster-lap counts print the driver1 and driver2 of the state) are
\* the two drivers the displayed result was fetched for.
C25_AsStated ==
    ComparisonShown =>
        /\ driverComparison.driver1 = driverComparison.comparison.driver1
        /\ driverComparison.driver2 = driverComparison.comparison.driver2

C27_NoStaleResponse ==
    [][\A q \in Pending("telemetry") :
           CopiesIn(q, requests') < CopiesIn(q, requests) =>
               q = TelemetryRequest(PageState)]_vars

---------------------------------------------------------------------------
(* Dashboard *)

\* The races the backend holds for the season selected in the Dashboard
SelectedSeason == calendar[dashboard.selectedYear]

\* The completed races of the displayed list with the most recent date
MostRecentCompleted ==
    {i \in 1..Len(completedRaces) :
        \A j \in 1..Len(completedRaces) :
            completedRaces[j].date <= completedRaces[i].date}

\* ---------------------------------------------------------------------
\* C26  Dashboard: whenever no race-list request is in flight, the
\* displayed races list is the response for the currently selected year.
C26_AsStated ==
    dashboardRequests = EmptyBag => dashboard.races = SelectedSeason

\* ---------------------------------------------------------------------
\* C30  Dashboard: whenever at least one race is completed, the race named
\* 'Latest' in the Completed card is the completed race with the most
\* recent date, the first element of the newest-first completed list.
C30_AsStated ==
    Len(completedRaces) > 0 =>
        \E i \in MostRecentCompleted : latestRace = completedRaces[i].race_name

---------------------------------------------------------------------------
(* RaceAnalysis: loadDriverData *)

\* The pending loadDriverData calls this step answers
DataAnswered ==
    {q \in BagToSet(raceRequests) :
        q.kind = "data" /\ CopiesIn(q, raceRequests') < CopiesIn(q, raceRequests)}

\* ---------------------------------------------------------------------
\* C28  loadDriverData updates driverLaps and paceAnalysis together or not
\* at all: the step that applies its outcome either replaces both by the
\* laps and the pace analysis of the requested driver and leaves error
\* null, or changes neither and leaves error non-null.
C28_TogetherOrNotAtAll ==
    [][\A q \in DataAnswered :
           \/ /\ raceAnalysis'.driverLaps = DriverLapsAt(q.selectedDriver)
              /\ raceAnalysis'.paceAnalysis = PaceAnalysisAt(q.selectedDriver)
              /\ raceAnalysis'.error = NoError
           \/ /\ raceAnalysis'.driverLaps = raceAnalysis.driverLaps
              /\ raceAnalysis'.paceAnalysis = raceAnalysis.paceAnalysis
              /\ raceAnalysis'.error # NoError]_vars

\* A load has failed after an earlier one succeeded: both results of the
\* earlier load are still there, next to the error
C28_Witness ==
    /\ raceAnalysis.driverLaps.loaded
    /\ raceAnalysis.paceAnalysis.loaded
    /\ raceAnalysis.driverLaps.driver # raceAnalysis.selectedDriver
    /\ raceAnalysis.error = "No lap data for this driver"
    /\ raceRequests = EmptyBag

---------------------------------------------------------------------------
(* The loading flags *)

\* No loading flag of the page on screen is set
LoadingFlagsReset ==
    /\ page = "Dashboard" => ~dashboard.loading
    /\ ~raceAnalysis.loading /\ ~raceAnalysis.loadingDrivers
    /\ ~driverComparison.loading
    /\ ~loading /\ ~loadingDrivers

\* ---------------------------------------------------------------------
\* C29  Every load resets its loading flag once its response arrives,
\* success or failure: when every request that stays pending is answered
\* in the end, the loading flags of the page on screen (Dashboard loading,
\* RaceAnalysis loading and loadingDrivers, DriverComparison loading,
\* TelemetryAnalysis loading and loadingDrivers) are false again and
\* again, whatever the user selects in between.
C29_LoadingResets ==
    /\ [][/\ DashboardRacesAnswered => ~dashboard'.loading
          /\ RaceDriversAnswered => ~raceAnalysis'.loadingDrivers
          /\ DriverDataAnswered => ~raceAnalysis'.loading
          /\ ComparisonAnswered => ~driverComparison'.loading
          /\ TelemetryAnswered => ~loading'
          /\ DriversAnswered => ~loadingDrivers']_vars
    /\ []<>LoadingFlagsReset

\* The driver list of TelemetryAnalysis was refused (the early return of
\* the non-OK response) and loadingDrivers is false again, with the
\* telemetry of the race loaded and no request left
C29_Witness ==
    /\ page = "TelemetryAnalysis"
    /\ TruthyNumber(selectedRace)
    /\ availableDrivers = <<>>
    /\ ~loadingDrivers /\ ~loading
    /\ telemetryData.loaded
    /\ requests = EmptyBag

=============================================================================
